---------------------------- MODULE Spec2Model ----------------------------
(***************************************************************************)
(* A model of networking_opencontrail/drivers/contrail_driver_base.py:     *)
(* the extension loader (_parse_class_args), the error translator          *)
(* (_raise_contrail_error), subnet creation, port update with its fixed-IP *)
(* diff, and the port binding projection (_make_port_dict).                *)
(*                                                                         *)
(* Python dictionaries are functions with a string domain, lists are       *)
(* sequences, and a method name is the sequence of its characters so that  *)
(* str.startswith is computed and not assumed.                             *)
(***************************************************************************)
EXTENDS Naturals, Integers, Sequences, FiniteSets, TLC

VARIABLES
    contrail_extensions,          \* cfg.CONF.APISERVER.contrail_extensions, in items() order
    ext_pos,                      \* number of entries the loop of _parse_class_args has taken
    supported_extension_aliases,  \* self.supported_extension_aliases
    methods,                      \* the driver's attribute table: method name -> implementer
    load_state,                   \* "loading" | "loaded" | "failed"
    load_error,                   \* the exception _parse_class_args raised, or None
    auth_calls,                   \* number of calls of _build_auth_details
    dispatched,                   \* the last call made on the driver by name
    conf,                         \* cfg.CONF: max_subnet_host_routes, max_fixed_ips_per_port
    pc,                           \* "idle" | "returned": position of the request in flight
    request,                      \* the operation called and its arguments
    hook_log,                     \* backend hook invocations of the request, in order
    outcome                       \* what the request returned or raised

vars == <<contrail_extensions, ext_pos, supported_extension_aliases, methods,
          load_state, load_error, auth_calls, dispatched,
          conf, pc, request, hook_log, outcome>>

extVars == <<contrail_extensions, ext_pos, supported_extension_aliases, methods,
             load_state, load_error, auth_calls, dispatched>>

reqVars == <<conf, pc, request, hook_log, outcome>>

\* An empty slot of the model: no request, no error, nothing returned.
Nothing == [kind |-> "nothing"]

Range(s) == {s[i] : i \in 1..Len(s)}

(***************************************************************************)
(* Bounds of the model.                                                    *)
(***************************************************************************)
MaxExts == 3        \* entries of contrail_extensions
MaxOrigIps == 3     \* fixed IPs on the fetched port (diff specification)
MaxNewIps == 3      \* fixed IPs in the update payload (diff specification)
MaxPortIps == 2     \* fixed IPs per list in the update_port specification
MaxRoutes == 3      \* host routes in a create_subnet payload
MaxFields == 2      \* length of a fields list given to _make_port_dict

(***************************************************************************)
(* Method names, as character sequences.                                   *)
(***************************************************************************)
m_get_port == <<"g","e","t","_","p","o","r","t">>
m_create_foo == <<"c","r","e","a","t","e","_","f","o","o">>
m_update_port == <<"u","p","d","a","t","e","_","p","o","r","t">>
m_delete_port == <<"d","e","l","e","t","e","_","p","o","r","t">>
m_getter == <<"g","e","t","t","e","r">>
m_set_core == <<"s","e","t","_","c","o","r","e">>
m_add_router_interface ==
    <<"a","d","d","_","r","o","u","t","e","r","_","i","n","t","e","r","f","a","c","e">>
m_remove_router_interface ==
    <<"r","e","m","o","v","e","_","r","o","u","t","e","r","_","i","n","t","e","r","f","a","c","e">>
m__create_resource ==
    <<"_","c","r","e","a","t","e","_","r","e","s","o","u","r","c","e">>
m__get_resource == <<"_","g","e","t","_","r","e","s","o","u","r","c","e">>
m__update_resource ==
    <<"_","u","p","d","a","t","e","_","r","e","s","o","u","r","c","e">>
m__delete_resource ==
    <<"_","d","e","l","e","t","e","_","r","e","s","o","u","r","c","e">>
m__list_resource == <<"_","l","i","s","t","_","r","e","s","o","u","r","c","e">>
m__count_resource == <<"_","c","o","u","n","t","_","r","e","s","o","u","r","c","e">>

\* The six abstract backend hooks of the driver.
BackendHooks == {m__create_resource, m__get_resource, m__update_resource,
                 m__delete_resource, m__list_resource, m__count_resource}

\* Methods the class OpenContrailDriversBase defines itself (a sample of the
\* CRUD ones, the two router-interface operations and the six hooks).
DriverMethods == {m_get_port, m_update_port, m_delete_port,
                  m_add_router_interface, m_remove_router_interface}
                 \cup BackendHooks

\* Who implements a method the driver class defines.
Default == "OpenContrailDriversBase"

(***************************************************************************)
(* Extension loader: _parse_class_args.                                    *)
(***************************************************************************)
ExtNames == {"ipam", "policy", "qos", "lbaas"}

\* What importutils.import_class finds for each configured class path: whether
\* the path resolves, whether the constructor and set_core return, dir() of
\* the instance (sorted, as dir() returns it) and the attributes whose lookup
\* raises (a property that throws).
ClassTable ==
    [ref \in {"ext.Ipam", "ext.Policy", "ext.Missing", "ext.BadInit",
              "ext.BadCore", "ext.BadAttr"} |->
        CASE ref = "ext.Ipam" ->
               [importable |-> TRUE, init_ok |-> TRUE, set_core_ok |-> TRUE,
                dir |-> <<m__create_resource, m_add_router_interface,
                          m_create_foo, m_get_port, m_getter, m_set_core>>,
                raising |-> {}]
          [] ref = "ext.Policy" ->
               [importable |-> TRUE, init_ok |-> TRUE, set_core_ok |-> TRUE,
                dir |-> <<m__get_resource, m_create_foo, m_delete_port,
                          m_remove_router_interface, m_set_core, m_update_port>>,
                raising |-> {m_remove_router_interface}]
          [] ref = "ext.Missing" ->
               [importable |-> FALSE, init_ok |-> TRUE, set_core_ok |-> TRUE,
                dir |-> <<m_create_foo, m_set_core>>, raising |-> {}]
          [] ref = "ext.BadInit" ->
               [importable |-> TRUE, init_ok |-> FALSE, set_core_ok |-> TRUE,
                dir |-> <<m_create_foo, m_set_core>>, raising |-> {}]
          [] ref = "ext.BadCore" ->
               [importable |-> TRUE, init_ok |-> TRUE, set_core_ok |-> FALSE,
                dir |-> <<m_create_foo, m_set_core>>, raising |-> {}]
          [] OTHER ->
               [importable |-> TRUE, init_ok |-> TRUE, set_core_ok |-> TRUE,
                dir |-> <<m_create_foo, m_get_port, m_set_core>>,
                raising |-> {m_get_port}]]

ClassRefs == DOMAIN ClassTable

\* The values an entry of contrail_extensions can carry.
ExtClassValues == {"", "None"} \cup ClassRefs

\* The names already used as keys in a sequence of (ext_name, ext_class).
NamesOf(c) == {c[i][1] : i \in 1..Len(c)}

\* Sequences of at most n (ext_name, ext_class) pairs with distinct names: the
\* items of a dict.
RECURSIVE ExtensionConfigs(_)
ExtensionConfigs(n) ==
    IF n = 0 THEN {<< >>}
    ELSE LET shorter == ExtensionConfigs(n - 1)
         IN shorter \cup
            UNION {{Append(c, <<nm, cl>>) : nm \in ExtNames \ NamesOf(c),
                                           cl \in ExtClassValues} :
                      c \in {d \in shorter : Len(d) = n - 1}}

StartsWith(s, p) == Len(s) >= Len(p) /\ SubSeq(s, 1, Len(p)) = p

\* The prefixes of line 123, each followed by '_' (line 124).
CrudPrefixes == {<<"g","e","t","_">>, <<"u","p","d","a","t","e","_">>,
                 <<"d","e","l","e","t","e","_">>, <<"c","r","e","a","t","e","_">>}

\* A plausible slip: every public attribute of the extension is spliced in.
IsInjectable_AnyPublic(method) == method[1] # "_"

\* Lines 123-124: method.startswith('%s_' % prefix) for one of the prefixes.
IsInjectable(method) == \E p \in CrudPrefixes : StartsWith(method, p)

\* A plausible slip: an attribute the driver already has is not replaced.
SetAttr_KeepExisting(tbl, method, impl) ==
    IF method \in DOMAIN tbl THEN tbl
    ELSE [m \in DOMAIN tbl \cup {method} |-> IF m = method THEN impl ELSE tbl[m]]

\* Line 125: setattr(self, method, ...) adds or replaces the attribute.
SetAttr(tbl, method, impl) ==
    [m \in DOMAIN tbl \cup {method} |-> IF m = method THEN impl ELSE tbl[m]]

\* Lines 122-126: walk dir(ext_instance) from position k; the attribute lookup
\* of line 126 may raise, which leaves what was bound so far in place.
RECURSIVE BindMethods(_, _, _, _)
BindMethods(tbl, ext_name, cls, k) ==
    IF k > Len(cls.dir) THEN [methods |-> tbl, ok |-> TRUE]
    ELSE LET method == cls.dir[k]
         IN IF IsInjectable(method)
            THEN IF method \in cls.raising
                 THEN [methods |-> tbl, ok |-> FALSE]
                 ELSE BindMethods(SetAttr(tbl, method, ext_name), ext_name, cls, k + 1)
            ELSE BindMethods(tbl, ext_name, cls, k + 1)

\* The value of the local ext_class: the configured path until line 119 has
\* resolved it, the class object afterwards.
ClassPath(ref) == [path |-> ref, resolved |-> FALSE]

ClassObject(ref) == [path |-> ref, resolved |-> TRUE]

InvalidContrailExtensionError(ext_name, ext_class) ==
    [kind |-> "InvalidContrailExtensionError", ext_name |-> ext_name,
     ext_class |-> ext_class]

\* A plausible slip: the name is registered before the class is loaded.
LoadExtension_RegisterFirst(tbl, aliases, ext_name, ext_class) ==
    IF ext_class = "" \/ ext_class = "None"
    THEN [methods |-> tbl, aliases |-> Append(aliases, ext_name), error |-> Nothing]
    ELSE LET cls == ClassTable[ext_class]
             bound == BindMethods(tbl, ext_name, cls, 1)
         IN IF cls.importable /\ cls.init_ok /\ cls.set_core_ok /\ bound.ok
            THEN [methods |-> bound.methods, aliases |-> Append(aliases, ext_name),
                  error |-> Nothing]
            ELSE [methods |-> tbl, aliases |-> Append(aliases, ext_name),
                  error |-> InvalidContrailExtensionError(ext_name, ClassPath(ext_class))]

\* Lines 115-132: one iteration of the loop over contrail_extensions.
LoadExtension(tbl, aliases, ext_name, ext_class) ==
    IF ext_class = "" \/ ext_class = "None"
    THEN [methods |-> tbl, aliases |-> Append(aliases, ext_name), error |-> Nothing]
    ELSE LET cls == ClassTable[ext_class]
         IN IF ~cls.importable
            THEN \* line 119 raises: ext_class is still the configured string
                 [methods |-> tbl, aliases |-> aliases,
                  error |-> InvalidContrailExtensionError(ext_name, ClassPath(ext_class))]
            ELSE IF ~cls.init_ok \/ ~cls.set_core_ok
            THEN \* lines 120-121 raise: ext_class is now the class object
                 [methods |-> tbl, aliases |-> aliases,
                  error |-> InvalidContrailExtensionError(ext_name, ClassObject(ext_class))]
            ELSE LET bound == BindMethods(tbl, ext_name, cls, 1)
                 IN IF bound.ok
                    THEN [methods |-> bound.methods,
                          aliases |-> Append(aliases, ext_name), error |-> Nothing]
                    ELSE [methods |-> bound.methods, aliases |-> aliases,
                          error |-> InvalidContrailExtensionError(
                                        ext_name, ClassObject(ext_class))]

\* The driver as constructed: its class's own methods, nothing loaded yet.
InitDriver ==
    /\ ext_pos = 0
    /\ supported_extension_aliases = << >>
    /\ methods = [m \in DriverMethods |-> Default]
    /\ load_state = "loading"
    /\ load_error = Nothing
    /\ auth_calls = 0
    /\ dispatched = Nothing

InitIdle ==
    /\ pc = "idle"
    /\ request = Nothing
    /\ hook_log = << >>
    /\ outcome = Nothing

DefaultConf == [max_subnet_host_routes |-> 0, max_fixed_ips_per_port |-> 0]

InitExt ==
    /\ contrail_extensions \in ExtensionConfigs(MaxExts)
    /\ InitDriver
    /\ conf = DefaultConf
    /\ InitIdle

\* _parse_class_args, lines 114-132: the next entry of contrail_extensions.
ParseClassArgsStep ==
    /\ load_state = "loading"
    /\ ext_pos < Len(contrail_extensions)
    /\ LET entry == contrail_extensions[ext_pos + 1]
           r == LoadExtension(methods, supported_extension_aliases,
                              entry[1], entry[2])
       IN /\ ext_pos' = ext_pos + 1
          /\ methods' = r.methods
          /\ supported_extension_aliases' = r.aliases
          /\ load_error' = r.error
          /\ load_state' = IF r.error = Nothing THEN "loading" ELSE "failed"
    /\ UNCHANGED <<contrail_extensions, auth_calls, dispatched>>
    /\ UNCHANGED reqVars

\* _parse_class_args, line 133: the loop is over, _build_auth_details is called.
ParseClassArgsFinish ==
    /\ load_state = "loading"
    /\ ext_pos = Len(contrail_extensions)
    /\ auth_calls' = auth_calls + 1
    /\ load_state' = "loaded"
    /\ UNCHANGED <<contrail_extensions, ext_pos, supported_extension_aliases,
                   methods, load_error, dispatched>>
    /\ UNCHANGED reqVars

\* Every name a caller may ask the driver for.
CallableNames == {m_get_port, m_update_port, m_delete_port, m_create_foo,
                  m_add_router_interface, m_remove_router_interface,
                  m__create_resource, m__get_resource, m_getter}

\* A later call driver.<name>(...): Python's attribute lookup on the driver.
CallMethod ==
    /\ load_state = "loaded"
    /\ \E name \in CallableNames :
          dispatched' = IF name \in DOMAIN methods
                        THEN [name |-> name, impl |-> methods[name]]
                        ELSE [name |-> name, impl |-> "AttributeError"]
    /\ UNCHANGED <<contrail_extensions, ext_pos, supported_extension_aliases,
                   methods, load_state, load_error, auth_calls>>
    /\ UNCHANGED reqVars

NextExt == ParseClassArgsStep \/ ParseClassArgsFinish \/ CallMethod

SpecExt == InitExt /\ [][NextExt]_vars


(***************************************************************************)
(* Properties of the extension loader.                                     *)
(***************************************************************************)
\* The names of the model that start with get_, create_, update_ or delete_.
CrudNames == {m_get_port, m_create_foo, m_update_port, m_delete_port}

\* The class paths of ClassTable whose loading throws at some step:
\* resolution, instantiation, set_core, or binding a CRUD-named attribute.
FailingRefs == {"ext.Missing", "ext.BadInit", "ext.BadCore", "ext.BadAttr"}

NameOnly(i) == contrail_extensions[i][2] \in {"", "None"}

\* Position of the first configured extension whose loading throws, or 0.
FirstFailing ==
    LET bad == {i \in 1..Len(contrail_extensions) :
                    contrail_extensions[i][2] \in FailingRefs}
    IN IF bad = {} THEN 0 ELSE CHOOSE i \in bad : \A j \in bad : i <= j

\* Extension i carries a class that exposes attribute m.
Exposes(i, m) ==
    /\ ~NameOnly(i)
    /\ m \in Range(ClassTable[contrail_extensions[i][2]].dir)

\* The configured extension loaded last among those exposing m, or 0.
LastExposer(m) ==
    LET ex == {i \in 1..Len(contrail_extensions) : Exposes(i, m)}
    IN IF ex = {} THEN 0 ELSE CHOOSE i \in ex : \A j \in ex : j <= i

\* C5: when loading an extension with a non-empty class reference fails at any
\* step, loading aborts with InvalidContrailExtensionError for that extension,
\* its name is not in supported_extension_aliases, no later extension of the
\* configuration is processed (none is registered, none has bound a method),
\* and _build_auth_details is not invoked; and loading fails in no other case.
C5_LoadFailureAborts ==
    LET f == FirstFailing
        n == Len(contrail_extensions)
    IN /\ (f # 0 /\ ext_pos >= f) =>
             /\ load_state = "failed"
             /\ ext_pos = f
             /\ load_error.kind = "InvalidContrailExtensionError"
             /\ load_error.ext_name = contrail_extensions[f][1]
             /\ load_error.ext_class.path = contrail_extensions[f][2]
             /\ \A j \in f..n : contrail_extensions[j][1]
                                   \notin Range(supported_extension_aliases)
             /\ \A j \in (f + 1)..n : \A m \in DOMAIN methods :
                    methods[m] # contrail_extensions[j][1]
             /\ auth_calls = 0
             /\ dispatched = Nothing
       /\ load_state = "failed" => (f # 0 /\ ext_pos = f)

\* C5 witness: binding failed for an extension whose class had resolved, after
\* an earlier extension was registered and with a later one left unprocessed.
C5_Witness ==
    /\ load_state = "failed"
    /\ load_error.ext_class.resolved
    /\ load_error.ext_class.path = "ext.BadAttr"
    /\ Len(supported_extension_aliases) > 0
    /\ ext_pos < Len(contrail_extensions)

\* C6: after extension loading completes, every configured extension name is
\* in supported_extension_aliases (once, in configuration order); a name-only
\* extension (class reference empty or "None") has bound no method; and every
\* CRUD-prefixed name some loaded extension exposes resolves on the driver to
\* the extension loaded last among those exposing it, which is what a later
\* call of that name invokes.
C6_LoadedExtensionsOverride ==
    load_state = "loaded" =>
       /\ supported_extension_aliases =
             [i \in 1..Len(contrail_extensions) |-> contrail_extensions[i][1]]
       /\ \A i \in 1..Len(contrail_extensions) :
             NameOnly(i) => \A m \in DOMAIN methods :
                                methods[m] # contrail_extensions[i][1]
       /\ \A m \in CrudNames :
             LastExposer(m) # 0 =>
                /\ m \in DOMAIN methods
                /\ methods[m] = contrail_extensions[LastExposer(m)][1]
                /\ (dispatched # Nothing /\ dispatched.name = m) =>
                      dispatched.impl = contrail_extensions[LastExposer(m)][1]

\* C6 witness: a name-only extension and two extensions that both expose
\* create_foo are loaded, and create_foo has been called on the driver.
C6_Witness ==
    /\ load_state = "loaded"
    /\ Len(contrail_extensions) = 3
    /\ \E i \in 1..3 : NameOnly(i)
    /\ \E i, j \in 1..3 : i < j /\ Exposes(i, m_create_foo) /\ Exposes(j, m_create_foo)
    /\ dispatched # Nothing
    /\ dispatched.name = m_create_foo

\* C7: whatever has been loaded so far, every driver entry whose name does not
\* start with get_, create_, update_ or delete_ is one the driver class defines
\* and still has its default implementation (the two router-interface
\* operations and the six backend hooks among them), also when a loaded
\* extension exposes an attribute of that name; a call of such a name runs
\* the default.
C7_OnlyCrudNamesInjected ==
    /\ DriverMethods \subseteq DOMAIN methods
    /\ \A m \in DOMAIN methods :
          m \notin CrudNames => (m \in DriverMethods /\ methods[m] = Default)
    /\ \A m \in DOMAIN methods :
          methods[m] # Default =>
             \E i \in 1..ext_pos : /\ contrail_extensions[i][1] = methods[m]
                                   /\ Exposes(i, m)
    /\ (dispatched # Nothing /\ dispatched.name \notin CrudNames) =>
          dispatched.impl = IF dispatched.name \in DriverMethods
                            THEN Default ELSE "AttributeError"

\* C7 witness: an extension exposing add_router_interface, _create_resource and
\* getter is loaded, and add_router_interface has been called on the driver.
C7_Witness ==
    /\ load_state = "loaded"
    /\ \E i \in 1..Len(contrail_extensions) :
          /\ Exposes(i, m_add_router_interface)
          /\ Exposes(i, m__create_resource)
          /\ Exposes(i, m_getter)
    /\ dispatched # Nothing
    /\ dispatched.name = m_add_router_interface


(***************************************************************************)
(* Requests on a loaded driver.  Values of a field that can hold objects   *)
(* of several Python types are tagged records, so that the code's tests    *)
(* (is None, != ATTR_NOT_SPECIFIED) are comparisons the model can make.    *)
(***************************************************************************)
PyNone == [py |-> "None"]

ATTR_NOT_SPECIFIED == [py |-> "ATTR_NOT_SPECIFIED"]

Str(s) == [str |-> s]

List(s) == [items |-> s]

\* All sequences over S of length at most n.
RECURSIVE SeqsUpTo(_, _)
SeqsUpTo(S, n) ==
    IF n = 0 THEN {<< >>}
    ELSE LET shorter == SeqsUpTo(S, n - 1)
         IN shorter \cup {Append(q, x) : q \in {r \in shorter : Len(r) = n - 1}, x \in S}

\* The driver after _parse_class_args ran over an empty contrail_extensions.
InitLoaded ==
    /\ contrail_extensions = << >>
    /\ ext_pos = 0
    /\ supported_extension_aliases = << >>
    /\ methods = [m \in DriverMethods |-> Default]
    /\ load_state = "loaded"
    /\ load_error = Nothing
    /\ auth_calls = 1
    /\ dispatched = Nothing

\* One invocation of a backend hook, as the hook sees it.
HookCall(hook, res_type, data) == [hook |-> hook, res_type |-> res_type, data |-> data]

\* What a backend hook does is the subclass's business: it returns or raises.
BackendResults == {"ok", "error"}

Returned(value) == [kind |-> "returned", value |-> value]

Raised(exc, args) == [kind |-> "raised", exc |-> exc, args |-> args]

\* The request has returned to its caller; the driver takes the next one.
ReturnToCaller ==
    /\ pc = "returned"
    /\ pc' = "idle"
    /\ request' = Nothing
    /\ hook_log' = << >>
    /\ outcome' = Nothing
    /\ UNCHANGED conf
    /\ UNCHANGED extVars

(***************************************************************************)
(* create_subnet.                                                          *)
(***************************************************************************)
HostRoutes == {[destination |-> "10.1.0.0/24", nexthop |-> "10.0.0.1"],
               [destination |-> "10.2.0.0/24", nexthop |-> "10.0.0.1"]}

\* subnet['subnet'] payloads: gateway_ip, ip_version, host_routes, and an
\* optional id.
SubnetPayloads ==
    LET base == [gateway_ip : {PyNone, ATTR_NOT_SPECIFIED, Str("10.0.0.1"), Str("fd00::1")},
                 ip_version : {4, 6},
                 host_routes : {ATTR_NOT_SPECIFIED}
                               \cup {List(r) : r \in SeqsUpTo(HostRoutes, MaxRoutes)}]
    IN base \cup {[gateway_ip |-> b.gateway_ip, ip_version |-> b.ip_version,
                   host_routes |-> b.host_routes, id |-> "subnet-7"] : b \in base}

\* A plausible slip: the IPv6 default is given to every subnet but IPv6 ones.
DefaultGateway_Swapped(ip_version) == IF ip_version = 6 THEN "0.0.0.0" ELSE "::"

\* Lines 204-206.
DefaultGateway(ip_version) == IF ip_version = 6 THEN "::" ELSE "0.0.0.0"

\* Lines 203-207: the payload with gateway_ip filled in when it is None.
WithGateway(subnet) ==
    IF subnet.gateway_ip = PyNone
    THEN [subnet EXCEPT !.gateway_ip = Str(DefaultGateway(subnet.ip_version))]
    ELSE subnet

\* A plausible slip: a list exactly at the limit is refused too.
HostRoutesExceeded_AtLimit(subnet, cf) ==
    /\ subnet.host_routes # ATTR_NOT_SPECIFIED
    /\ Len(subnet.host_routes.items) >= cf.max_subnet_host_routes

\* Lines 209-211.
HostRoutesExceeded(subnet, cf) ==
    /\ subnet.host_routes # ATTR_NOT_SPECIFIED
    /\ Len(subnet.host_routes.items) > cf.max_subnet_host_routes

\* Lines 219-220.
_make_subnet_dict(subnet) == subnet

\* Lines 200-217.  backend is what _create_resource does when it is reached.
create_subnet(cf, subnet, backend) ==
    LET data == WithGateway(subnet)
    IN IF HostRoutesExceeded(data, cf)
       THEN [hook_log |-> << >>,
             outcome |-> Raised("HostRoutesExhausted",
                                [subnet_id |-> IF "id" \in DOMAIN data THEN data.id
                                               ELSE "new subnet",
                                 quota |-> cf.max_subnet_host_routes])]
       ELSE [hook_log |-> <<HookCall("_create_resource", "subnet", data)>>,
             outcome |-> IF backend = "ok"
                         THEN Returned(_make_subnet_dict(data))
                         ELSE Raised("BackendError", [res_type |-> "subnet"])]

InitSubnet ==
    /\ InitLoaded
    /\ conf \in [max_subnet_host_routes : 0..MaxRoutes, max_fixed_ips_per_port : {0}]
    /\ InitIdle

CreateSubnet ==
    /\ pc = "idle"
    /\ \E subnet \in SubnetPayloads, backend \in BackendResults :
          LET r == create_subnet(conf, subnet, backend)
          IN /\ request' = [op |-> "create_subnet", subnet |-> subnet]
             /\ hook_log' = r.hook_log
             /\ outcome' = r.outcome
    /\ pc' = "returned"
    /\ UNCHANGED conf
    /\ UNCHANGED extVars

NextSubnet == CreateSubnet \/ ReturnToCaller

SpecSubnet == InitSubnet /\ [][NextSubnet]_vars

\* C1: a create_subnet call whose host_routes is specified and longer than
\* max_subnet_host_routes raises HostRoutesExhausted (with the quota and the
\* subnet id, or 'new subnet') and never reaches _create_resource; every other
\* call invokes _create_resource exactly once, for a subnet.
C1_HostRoutesLimit ==
    (pc = "returned" /\ request.op = "create_subnet") =>
        LET s == request.subnet
            over == /\ s.host_routes # ATTR_NOT_SPECIFIED
                    /\ Len(s.host_routes.items) > conf.max_subnet_host_routes
        IN IF over
           THEN /\ outcome = Raised("HostRoutesExhausted",
                                    [subnet_id |-> IF "id" \in DOMAIN s THEN s.id
                                                   ELSE "new subnet",
                                     quota |-> conf.max_subnet_host_routes])
                /\ hook_log = << >>
           ELSE /\ Len(hook_log) = 1
                /\ hook_log[1].hook = "_create_resource"
                /\ hook_log[1].res_type = "subnet"
                /\ outcome.kind = "raised" => outcome.exc = "BackendError"

\* C1 witness: a call with two host routes against a limit of one was refused.
C1_Witness ==
    /\ pc = "returned"
    /\ request.op = "create_subnet"
    /\ conf.max_subnet_host_routes = 1
    /\ request.subnet.host_routes # ATTR_NOT_SPECIFIED
    /\ Len(request.subnet.host_routes.items) = 2
    /\ outcome.kind = "raised"
    /\ outcome.exc = "HostRoutesExhausted"

\* C9: in a create_subnet call that passes validation, the payload handed to
\* _create_resource carries gateway_ip 0.0.0.0 (ip_version 4) or :: (ip_version
\* 6) when the caller's gateway_ip was None, and the caller's gateway_ip
\* otherwise; no other field of the payload differs from the caller's.
C9_GatewayDefault ==
    (pc = "returned" /\ request.op = "create_subnet" /\ hook_log # << >>) =>
        LET s == request.subnet
            sent == hook_log[1].data
        IN /\ sent.gateway_ip =
                 IF s.gateway_ip = PyNone
                 THEN (IF s.ip_version = 4 THEN Str("0.0.0.0") ELSE Str("::"))
                 ELSE s.gateway_ip
           /\ DOMAIN sent = DOMAIN s
           /\ \A k \in DOMAIN s \ {"gateway_ip"} : sent[k] = s[k]
           /\ outcome.kind = "returned" => outcome.value = sent

\* C9 witness: an IPv6 subnet created without gateway_ip reached the backend.
C9_Witness ==
    /\ pc = "returned"
    /\ request.op = "create_subnet"
    /\ request.subnet.gateway_ip = PyNone
    /\ request.subnet.ip_version = 6
    /\ hook_log # << >>
    /\ hook_log[1].data.gateway_ip = Str("::")
    /\ outcome.kind = "returned"


(***************************************************************************)
(* The fixed-IP diff: _update_ips_for_port.                                *)
(***************************************************************************)
\* fixed_ips entries of a port as the backend returns it.
OrigIpDicts == [ip_address : {"10.0.0.1", "10.0.0.2"}, subnet_id : {"s1", "s2"}]

\* fixed_ips entries of an update payload: an address, or only a subnet to
\* allocate from (no ip_address key).
NewIpDicts == {[ip_address |-> a] : a \in {"10.0.0.1", "10.0.0.2", "10.0.0.3"}}
              \cup {[subnet_id |-> "s1"]}

\* list.remove(x): the list without its first element equal to x.
ListRemove(lst, x) ==
    LET i == CHOOSE k \in 1..Len(lst) : lst[k] = x /\ \A h \in 1..(k - 1) : lst[h] # x
    IN SubSeq(lst, 1, i - 1) \o SubSeq(lst, i + 1, Len(lst))

\* Line 299-300.
IpMatches(original_ip, new_ip) ==
    /\ "ip_address" \in DOMAIN new_ip
    /\ original_ip.ip_address = new_ip.ip_address

\* Lines 298-303: the inner loop over the copy new_ips[:] taken when the outer
\* iteration began, from position j.  list.remove raises ValueError when the
\* element is no longer in the list, which ends the call.
RECURSIVE ScanNewIps(_, _, _, _)
ScanNewIps(st, original_ip, snapshot, j) ==
    IF j > Len(snapshot) \/ st.exc # "none" THEN st
    ELSE LET new_ip == snapshot[j]
         IN IF IpMatches(original_ip, new_ip)
            THEN IF original_ip \notin Range(st.original_ips)
                 THEN [st EXCEPT !.exc = "ValueError"]
                 ELSE ScanNewIps(
                         [exc |-> "none",
                          original_ips |-> ListRemove(st.original_ips, original_ip),
                          new_ips |-> ListRemove(st.new_ips, new_ip),
                          prev_ips |-> Append(st.prev_ips, original_ip)],
                         original_ip, snapshot, j + 1)
            ELSE ScanNewIps(st, original_ip, snapshot, j + 1)

\* Lines 297-303: the outer loop over the copy original_ips[:], from position i.
RECURSIVE ScanOriginalIps(_, _, _)
ScanOriginalIps(st, snapshot, i) ==
    IF i > Len(snapshot) \/ st.exc # "none" THEN st
    ELSE ScanOriginalIps(ScanNewIps(st, snapshot[i], st.new_ips, 1), snapshot, i + 1)

\* Lines 284-305.  exc is "none" when the call returns (new_ips, prev_ips).
_update_ips_for_port(cf, original_ips, new_ips) ==
    IF Len(new_ips) > cf.max_fixed_ips_per_port
    THEN [exc |-> "InvalidInput", original_ips |-> original_ips,
          new_ips |-> new_ips, prev_ips |-> << >>]
    ELSE ScanOriginalIps([exc |-> "none", original_ips |-> original_ips,
                          new_ips |-> new_ips, prev_ips |-> << >>],
                         original_ips, 1)

InitDiff ==
    /\ InitLoaded
    /\ conf \in [max_subnet_host_routes : {0}, max_fixed_ips_per_port : 0..MaxNewIps]
    /\ InitIdle

UpdateIpsForPort ==
    /\ pc = "idle"
    /\ \E original_ips \in SeqsUpTo(OrigIpDicts, MaxOrigIps),
          new_ips \in SeqsUpTo(NewIpDicts, MaxNewIps) :
          LET r == _update_ips_for_port(conf, original_ips, new_ips)
          IN /\ request' = [op |-> "_update_ips_for_port",
                            original_ips |-> original_ips, new_ips |-> new_ips]
             /\ outcome' = IF r.exc = "none"
                           THEN Returned([new_ips |-> r.new_ips, prev_ips |-> r.prev_ips])
                           ELSE Raised(r.exc, [new_ips |-> new_ips])
    /\ hook_log' = << >>
    /\ pc' = "returned"
    /\ UNCHANGED conf
    /\ UNCHANGED extVars

NextDiff == UpdateIpsForPort \/ ReturnToCaller

SpecDiff == InitDiff /\ [][NextDiff]_vars

\* The diff as the specification words it: each original IP, in order, takes
\* the first remaining new IP of equal ip_address; both leave their lists and
\* the original joins retained.
RECURSIVE FirstMatchDiff(_, _, _, _)
FirstMatchDiff(original_ips, remaining, retained, i) ==
    IF i > Len(original_ips) THEN [new_ips |-> remaining, prev_ips |-> retained]
    ELSE LET hits == {j \in 1..Len(remaining) : IpMatches(original_ips[i], remaining[j])}
         IN IF hits = {}
            THEN FirstMatchDiff(original_ips, remaining, retained, i + 1)
            ELSE LET j == CHOOSE h \in hits : \A g \in hits : h <= g
                 IN FirstMatchDiff(original_ips,
                                   SubSeq(remaining, 1, j - 1)
                                      \o SubSeq(remaining, j + 1, Len(remaining)),
                                   Append(retained, original_ips[i]), i + 1)

\* C3: for all lists originalIPs and newIPs with len(newIPs) within
\* max_fixed_ips_per_port, duplicates and entries without ip_address included,
\* _update_ips_for_port returns (remainingNewIPs, retained) where every
\* original IP was matched with at most one new IP of equal ip_address (the
\* first one remaining), retained holds the matched originals in original
\* order and remainingNewIPs the unmatched new entries in input order.
C3_FirstMatchDiff ==
    (/\ pc = "returned"
     /\ request.op = "_update_ips_for_port"
     /\ Len(request.new_ips) <= conf.max_fixed_ips_per_port) =>
        outcome = Returned(FirstMatchDiff(request.original_ips, request.new_ips, << >>, 1))


(***************************************************************************)
(* update_port.                                                            *)
(***************************************************************************)
\* Python's d[k] = v on a dictionary d.
SetItem(d, k, v) == [x \in DOMAIN d \cup {k} |-> IF x = k THEN v ELSE d[x]]

\* The port the backend holds, as _get_resource returns it.
OriginalPorts ==
    {[id |-> "port-1", network_id |-> "net-1", fixed_ips |-> ips] :
        ips \in SeqsUpTo(OrigIpDicts, MaxPortIps)}

\* port['port'] payloads: a name, and optionally fixed_ips and binding:host_id.
PortPayloads ==
    LET named == {[name |-> "p1"]}
        withIps == named \cup {SetItem(d, "fixed_ips", ips) :
                                  d \in named, ips \in SeqsUpTo(NewIpDicts, MaxPortIps)}
    IN withIps \cup {SetItem(d, "binding:host_id", "host-2") : d \in withIps}

\* A plausible slip: the new addresses are put before the retained ones.
JoinFixedIps_AddedFirst(prev_ips, added_ips) == added_ips \o prev_ips

\* Line 331: prev_ips + added_ips.
JoinFixedIps(prev_ips, added_ips) == prev_ips \o added_ips

\* A plausible slip: the limit is checked before the port is fetched.
update_port_ValidateFirst(cf, port_id, port, original, backend) ==
    IF "fixed_ips" \in DOMAIN port /\ Len(port["fixed_ips"]) > cf.max_fixed_ips_per_port
    THEN [hook_log |-> << >>,
          outcome |-> Raised("InvalidInput",
                             [error_message |-> "Exceeded maximim amount of fixed ips per port"])]
    ELSE LET fetch == HookCall("_get_resource", "port", [id |-> port_id])
         IN IF backend.get # "ok"
            THEN [hook_log |-> <<fetch>>,
                  outcome |-> Raised("BackendError", [res_type |-> "port"])]
            ELSE LET diff == IF "fixed_ips" \in DOMAIN port
                             THEN _update_ips_for_port(cf, original["fixed_ips"],
                                                       port["fixed_ips"])
                             ELSE [exc |-> "none"]
                 IN IF diff.exc # "none"
                    THEN [hook_log |-> <<fetch>>, outcome |-> Raised(diff.exc, << >>)]
                    ELSE LET sent == IF "fixed_ips" \in DOMAIN port
                                     THEN SetItem(port, "fixed_ips",
                                                  JoinFixedIps(diff.prev_ips, diff.new_ips))
                                     ELSE port
                         IN [hook_log |-> <<fetch, HookCall("_update_resource", "port",
                                                            [id |-> port_id, port |-> sent])>>,
                             outcome |-> IF backend.update = "ok"
                                         THEN Returned(sent)
                                         ELSE Raised("BackendError", [res_type |-> "port"])]

\* Lines 319-336.  original is what _get_resource returns for the port when it
\* returns; backend says what the get and the update hook do when reached.
\* The write of line 334 goes to the local copy of the fetched port only.
update_port(cf, port_id, port, original, backend) ==
    LET fetch == HookCall("_get_resource", "port", [id |-> port_id])
    IN IF backend.get # "ok"
       THEN [hook_log |-> <<fetch>>,
             outcome |-> Raised("BackendError", [res_type |-> "port"])]
       ELSE LET diff == IF "fixed_ips" \in DOMAIN port
                        THEN _update_ips_for_port(cf, original["fixed_ips"],
                                                  port["fixed_ips"])
                        ELSE [exc |-> "none"]
            IN IF diff.exc = "InvalidInput"
               THEN [hook_log |-> <<fetch>>,
                     outcome |-> Raised("InvalidInput",
                                        [error_message |->
                                            "Exceeded maximim amount of fixed ips per port"])]
               ELSE IF diff.exc # "none"
               THEN [hook_log |-> <<fetch>>, outcome |-> Raised(diff.exc, << >>)]
               ELSE LET sent == IF "fixed_ips" \in DOMAIN port
                                THEN SetItem(port, "fixed_ips",
                                             JoinFixedIps(diff.prev_ips, diff.new_ips))
                                ELSE port
                    IN [hook_log |-> <<fetch, HookCall("_update_resource", "port",
                                                       [id |-> port_id, port |-> sent])>>,
                        outcome |-> IF backend.update = "ok"
                                    THEN Returned(sent)
                                    ELSE Raised("BackendError", [res_type |-> "port"])]

InitPort ==
    /\ InitLoaded
    /\ conf \in [max_subnet_host_routes : {0}, max_fixed_ips_per_port : 0..MaxPortIps]
    /\ InitIdle

UpdatePort ==
    /\ pc = "idle"
    /\ \E port \in PortPayloads, original \in OriginalPorts,
          backend \in [get : BackendResults, update : BackendResults] :
          LET r == update_port(conf, original.id, port, original, backend)
          IN /\ request' = [op |-> "update_port", port_id |-> original.id, port |-> port,
                            original |-> original, backend |-> backend]
             /\ hook_log' = r.hook_log
             /\ outcome' = r.outcome
    /\ pc' = "returned"
    /\ UNCHANGED conf
    /\ UNCHANGED extVars

NextPort == UpdatePort \/ ReturnToCaller

SpecPort == InitPort /\ [][NextPort]_vars

\* The update_port call in flight carries more fixed_ips than the limit.
OverFixedIpLimit ==
    /\ pc = "returned"
    /\ request.op = "update_port"
    /\ "fixed_ips" \in DOMAIN request.port
    /\ Len(request.port["fixed_ips"]) > conf.max_fixed_ips_per_port

\* C2 as claimed: an update_port call with more fixed_ips than
\* max_fixed_ips_per_port fails with InvalidInput whatever the overlap with
\* the port's IPs, and no backend hook, get or update, was invoked before
\* that error was raised.  (Stated for the calls whose get hook does not
\* itself fail, so that what refutes it is the InvalidInput case.)
C2_AsClaimed ==
    OverFixedIpLimit =>
        /\ request.backend.get = "ok" =>
              (outcome.kind = "raised" /\ outcome.exc = "InvalidInput")
        /\ (outcome.kind = "raised" /\ outcome.exc = "InvalidInput") =>
              hook_log = << >>

\* C2 amended: such a call first invokes the get hook, exactly once, for the
\* port; if the hook returns, the call fails with InvalidInput whatever the
\* overlap of the new IPs with the port's; the update hook is never invoked.
C2_InvalidInputAfterGet ==
    OverFixedIpLimit =>
        /\ Len(hook_log) = 1
        /\ hook_log[1].hook = "_get_resource"
        /\ hook_log[1].res_type = "port"
        /\ outcome.kind = "raised"
        /\ outcome.exc = IF request.backend.get = "ok" THEN "InvalidInput"
                         ELSE "BackendError"

\* C2 witness: two new IPs, both already on the port, against a limit of one.
C2_Witness ==
    /\ OverFixedIpLimit
    /\ conf.max_fixed_ips_per_port = 1
    /\ Len(request.port["fixed_ips"]) = 2
    /\ \A i \in 1..2 : \E j \in 1..Len(request.original["fixed_ips"]) :
          IpMatches(request.original["fixed_ips"][j], request.port["fixed_ips"][i])
    /\ outcome.kind = "raised"
    /\ outcome.exc = "InvalidInput"

\* C4: a successful update_port call has invoked the get hook once for the
\* port and then the update hook once, with the caller's payload in which
\* fixed_ips, when present, is the retained IPs followed by the added ones
\* (the two lists the fixed-IP diff returned; when the port's IPs are pairwise
\* different these are the first-match lists of the specification) and every
\* other field, binding:host_id included, is the caller's; a payload without
\* fixed_ips is dispatched as it came.
C4_UpdateDispatch ==
    (pc = "returned" /\ request.op = "update_port" /\ outcome.kind = "returned") =>
        LET port == request.port
            sent == hook_log[2].data.port
        IN /\ Len(hook_log) = 2
           /\ hook_log[1] = HookCall("_get_resource", "port", [id |-> request.port_id])
           /\ hook_log[2].hook = "_update_resource"
           /\ hook_log[2].res_type = "port"
           /\ hook_log[2].data.id = request.port_id
           /\ DOMAIN sent = DOMAIN port
           /\ \A k \in DOMAIN port \ {"fixed_ips"} : sent[k] = port[k]
           /\ "fixed_ips" \in DOMAIN port =>
                 LET diff == _update_ips_for_port(conf, request.original["fixed_ips"],
                                                  port["fixed_ips"])
                     ips == request.original["fixed_ips"]
                     first == FirstMatchDiff(ips, port["fixed_ips"], << >>, 1)
                 IN /\ diff.exc = "none"
                    /\ sent["fixed_ips"] = diff.prev_ips \o diff.new_ips
                    /\ (\A i, j \in 1..Len(ips) : ips[i] = ips[j] => i = j) =>
                          sent["fixed_ips"] = first.prev_ips \o first.new_ips
           /\ outcome.value = sent

\* C4 witness: the port holds 10.0.0.1 and 10.0.0.2, the payload asks for
\* 10.0.0.2 and 10.0.0.3 and names a host; the backend got 10.0.0.2, 10.0.0.3.
C4_Witness ==
    /\ pc = "returned"
    /\ request.op = "update_port"
    /\ outcome.kind = "returned"
    /\ "binding:host_id" \in DOMAIN request.port
    /\ "fixed_ips" \in DOMAIN request.port
    /\ request.original["fixed_ips"] = <<[ip_address |-> "10.0.0.1", subnet_id |-> "s1"],
                                         [ip_address |-> "10.0.0.2", subnet_id |-> "s1"]>>
    /\ request.port["fixed_ips"] = <<[ip_address |-> "10.0.0.3"], [ip_address |-> "10.0.0.2"]>>
    /\ hook_log[2].data.port["fixed_ips"] =
          <<[ip_address |-> "10.0.0.2", subnet_id |-> "s1"], [ip_address |-> "10.0.0.3"]>>


(***************************************************************************)
(* The error translator: _raise_contrail_error.                            *)
(***************************************************************************)
\* The modules lines 78-87 look the name up in, as the code names them.
Namespaces == {"neutron_exc", "l3", "securitygroup", "allowedaddresspairs",
               "neutron_lib_exc"}

ExceptionNames == {"", "BadRequest", "VirtualRouterNotFound", "RouterNotFound",
                   "TotallyUnknownXYZ"}

\* Error descriptors: a message, and optionally an exception name (possibly
\* empty) and a resource.
ErrorDescriptors ==
    LET plain == {[msg |-> "backend said no"]}
        named == plain \cup {SetItem(d, "exception", e) : d \in plain, e \in ExceptionNames}
    IN named \cup {SetItem(d, "resource", "router") : d \in named}

ResourceNames == {"network", "subnet", "port"}

NeutronException == [ns |-> "neutron exceptions", name |-> "NeutronException"]

HttpResponseError == [ns |-> "contrail_driver_base", name |-> "HttpResponseError"]

\* getattr(ns, exc_name): the class that module defines under the name.
ErrorClass(ns, exc_name) == [ns |-> ns, name |-> exc_name]

\* A plausible slip: the security-group module is asked before the L3 one.
LookupErrorClass_SgFirst(exc_name, defined_in, lib_present) ==
    IF "neutron_exc" \in defined_in THEN ErrorClass("neutron_exc", exc_name)
    ELSE IF "securitygroup" \in defined_in THEN ErrorClass("securitygroup", exc_name)
    ELSE IF "l3" \in defined_in THEN ErrorClass("l3", exc_name)
    ELSE IF "allowedaddresspairs" \in defined_in
         THEN ErrorClass("allowedaddresspairs", exc_name)
    ELSE IF lib_present /\ "neutron_lib_exc" \in defined_in
         THEN ErrorClass("neutron_lib_exc", exc_name)
    ELSE NeutronException

\* Lines 78-88: defined_in holds the modules for which hasattr(module,
\* exc_name) is true; lib_present is whether neutron_lib_exc was imported.
LookupErrorClass(exc_name, defined_in, lib_present) ==
    IF "neutron_exc" \in defined_in THEN ErrorClass("neutron_exc", exc_name)
    ELSE IF "l3" \in defined_in THEN ErrorClass("l3", exc_name)
    ELSE IF "securitygroup" \in defined_in THEN ErrorClass("securitygroup", exc_name)
    ELSE IF "allowedaddresspairs" \in defined_in
         THEN ErrorClass("allowedaddresspairs", exc_name)
    ELSE IF lib_present /\ "neutron_lib_exc" \in defined_in
         THEN ErrorClass("neutron_lib_exc", exc_name)
    ELSE NeutronException

\* Lines 74-75.
WithResource(info, exc_name, obj_name) ==
    IF exc_name = "BadRequest" /\ "resource" \notin DOMAIN info
    THEN SetItem(info, "resource", obj_name)
    ELSE info

\* Lines 71-88.  Every path ends in a raise.
_raise_contrail_error(info, obj_name, defined_in, lib_present) ==
    LET exc_name == IF "exception" \in DOMAIN info THEN info["exception"] ELSE ""
    IN IF exc_name # ""
       THEN LET filled == WithResource(info, exc_name, obj_name)
            IN IF exc_name = "VirtualRouterNotFound"
               THEN Raised(HttpResponseError, filled)
               ELSE Raised(LookupErrorClass(exc_name, defined_in, lib_present), filled)
       ELSE Raised(NeutronException, info)

InitErr ==
    /\ InitLoaded
    /\ conf = DefaultConf
    /\ InitIdle

RaiseContrailError ==
    /\ pc = "idle"
    /\ \E info \in ErrorDescriptors, obj_name \in ResourceNames,
          lib_present \in BOOLEAN, defined_in \in SUBSET Namespaces :
          /\ (~lib_present => "neutron_lib_exc" \notin defined_in)
          /\ request' = [op |-> "_raise_contrail_error", info |-> info,
                         obj_name |-> obj_name, defined_in |-> defined_in,
                         lib_present |-> lib_present]
          /\ outcome' = _raise_contrail_error(info, obj_name, defined_in, lib_present)
    /\ hook_log' = << >>
    /\ pc' = "returned"
    /\ UNCHANGED conf
    /\ UNCHANGED extVars

NextErr == RaiseContrailError \/ ReturnToCaller

SpecErr == InitErr /\ [][NextErr]_vars

\* The order in which the claim says the namespaces are consulted.
NamespaceOrder == <<"neutron_exc", "l3", "securitygroup", "allowedaddresspairs",
                    "neutron_lib_exc">>

\* C8: _raise_contrail_error never returns; it raises the generic framework
\* error when the descriptor has no exception name, HttpResponseError with the
\* raw descriptor when the name is VirtualRouterNotFound (whatever namespace
\* defines that name), otherwise the error the first namespace defining the
\* name gives (order: core, L3, security-group, allowed-address-pair,
\* extended library), and the generic error when none defines it.  For
\* BadRequest without a resource field the operated resource name is filled
\* in; a resource field present is kept and no other name gets one.
C8_ErrorTranslation ==
    (pc = "returned" /\ request.op = "_raise_contrail_error") =>
        LET info == request.info
            name == IF "exception" \in DOMAIN info THEN info["exception"] ELSE ""
            defs == {i \in 1..5 : NamespaceOrder[i] \in request.defined_in}
            first == CHOOSE i \in defs : \A j \in defs : i <= j
            args == IF name = "BadRequest" /\ "resource" \notin DOMAIN info
                    THEN [k \in DOMAIN info \cup {"resource"} |->
                             IF k = "resource" THEN request.obj_name ELSE info[k]]
                    ELSE info
        IN /\ outcome.kind = "raised"
           /\ outcome.args = args
           /\ outcome.exc =
                 IF name = "" THEN NeutronException
                 ELSE IF name = "VirtualRouterNotFound" THEN HttpResponseError
                 ELSE IF defs = {} THEN NeutronException
                 ELSE [ns |-> NamespaceOrder[first], name |-> name]

\* C8 witness: BadRequest without a resource, for a port, defined by the
\* security-group and the extended-library namespaces but not the first two.
C8_Witness ==
    /\ pc = "returned"
    /\ request.op = "_raise_contrail_error"
    /\ "exception" \in DOMAIN request.info
    /\ request.info["exception"] = "BadRequest"
    /\ "resource" \notin DOMAIN request.info
    /\ request.obj_name = "port"
    /\ request.defined_in = {"securitygroup", "neutron_lib_exc"}
    /\ outcome.exc = [ns |-> "securitygroup", name |-> "BadRequest"]
    /\ outcome.args["resource"] = "port"


(***************************************************************************)
(* The binding projection: _make_port_dict.                                *)
(***************************************************************************)
VIF_TYPE == "binding:vif_type"

VIF_DETAILS == "binding:vif_details"

VIF_TYPE_VHOST_USER == "vhostuser"

\* Dictionaries over the given keys, each key absent or bound to one of its values.
RECURSIVE DictsOver(_, _)
DictsOver(keys, values) ==
    IF keys = {} THEN {<< >>}
    ELSE LET k == CHOOSE x \in keys : TRUE
             rest == DictsOver(keys \ {k}, values)
         IN rest \cup {SetItem(d, k, v) : d \in rest, v \in values[k]}

\* Port records: any of the two binding attributes and a name.
Ports ==
    DictsOver({VIF_TYPE, VIF_DETAILS, "name"},
              [k \in {VIF_TYPE, VIF_DETAILS, "name"} |->
                  CASE k = VIF_TYPE -> {"vrouter", VIF_TYPE_VHOST_USER, "ovs"}
                    [] k = VIF_DETAILS -> {"port_filter", "stale"}
                    [] OTHER -> {"p1"}])

\* self.base_binding_dict, which the subclass sets.
BaseBindingDicts ==
    DictsOver({VIF_TYPE, VIF_DETAILS},
              [k \in {VIF_TYPE, VIF_DETAILS} |->
                  IF k = VIF_TYPE THEN {"vrouter"} ELSE {"port_filter"}])

\* The fields argument: None, or a list of attribute names.
FieldLists ==
    {PyNone} \cup {List(f) : f \in SeqsUpTo({VIF_TYPE, VIF_DETAILS, "name", "device_id"},
                                            MaxFields)}

\* What _update_vhostuser_cfg_for_port may write on the port: any of these.
VhostWrites == SUBSET {VIF_TYPE, VIF_DETAILS}

\* self._update_vhostuser_cfg_for_port(port): defined outside this file; it
\* mutates the port in place.  writes says which attributes it sets.
_update_vhostuser_cfg_for_port(port, writes) ==
    [k \in DOMAIN port \cup writes |->
        IF k \in writes
        THEN (IF k = VIF_TYPE THEN VIF_TYPE_VHOST_USER ELSE "vhostuser_socket")
        ELSE port[k]]

\* A plausible slip: the requested fields are ignored.
BindingKeysToSet_All(base_binding_dict, fields) == DOMAIN base_binding_dict

\* Lines 268-273: the keys of base_binding_dict that are written on the port.
BindingKeysToSet(base_binding_dict, fields) ==
    IF fields = PyNone \/ fields.items = << >>
    THEN DOMAIN base_binding_dict
    ELSE {key \in DOMAIN base_binding_dict : key \in Range(fields.items)}

\* Lines 259-279.
_make_port_dict(port, fields, base_binding_dict, writes) ==
    LET vhostuser == VIF_TYPE \in DOMAIN port /\ port[VIF_TYPE] = VIF_TYPE_VHOST_USER
        keys == BindingKeysToSet(base_binding_dict, fields)
        merged == [k \in DOMAIN port \cup keys |->
                      IF k \in keys THEN base_binding_dict[k] ELSE port[k]]
    IN IF vhostuser THEN _update_vhostuser_cfg_for_port(merged, writes) ELSE merged

InitBind ==
    /\ InitLoaded
    /\ conf = DefaultConf
    /\ InitIdle

MakePortDict ==
    /\ pc = "idle"
    /\ \E port \in Ports, fields \in FieldLists,
          base_binding_dict \in BaseBindingDicts, writes \in VhostWrites :
          /\ request' = [op |-> "_make_port_dict", port |-> port, fields |-> fields,
                         base_binding_dict |-> base_binding_dict, writes |-> writes]
          /\ outcome' = Returned(_make_port_dict(port, fields, base_binding_dict, writes))
    /\ hook_log' = << >>
    /\ pc' = "returned"
    /\ UNCHANGED conf
    /\ UNCHANGED extVars

NextBind == MakePortDict \/ ReturnToCaller

SpecBind == InitBind /\ [][NextBind]_vars

\* The port the claim describes: with no fields every key of the base binding
\* dictionary is set to the base value; with fields, exactly the base keys
\* that are in fields; every other key of the port is as it was.
ProjectedPort(port, fields, base) ==
    LET keys == IF fields = PyNone \/ Len(fields.items) = 0
                THEN DOMAIN base
                ELSE DOMAIN base \cap {fields.items[i] : i \in 1..Len(fields.items)}
    IN [k \in DOMAIN port \cup keys |-> IF k \in keys THEN base[k] ELSE port[k]]

\* The port given to _make_port_dict is a vhost-user port.
IsVhostUserPort(port) == VIF_TYPE \in DOMAIN port /\ port[VIF_TYPE] = VIF_TYPE_VHOST_USER

\* C10 as claimed: for every port record and field list _make_port_dict
\* returns the port with the base binding keys (all of them without fields,
\* those in fields otherwise) overwritten and every other key untouched.
C10_AsClaimed ==
    (pc = "returned" /\ request.op = "_make_port_dict") =>
        outcome = Returned(ProjectedPort(request.port, request.fields,
                                         request.base_binding_dict))

\* C10 amended: that holds for every port whose binding:vif_type is not
\* vhostuser (or is absent); for a vhost-user port the same projection is made
\* and the vhost-user hook is then applied to it, so that the keys the hook
\* does not write are as the projection left them.
C10_ProjectionUnlessVhostUser ==
    (pc = "returned" /\ request.op = "_make_port_dict") =>
        LET projected == ProjectedPort(request.port, request.fields,
                                       request.base_binding_dict)
        IN IF IsVhostUserPort(request.port)
           THEN /\ outcome.kind = "returned"
                /\ DOMAIN outcome.value = DOMAIN projected \cup request.writes
                /\ \A k \in DOMAIN projected \ request.writes :
                      outcome.value[k] = projected[k]
           ELSE outcome = Returned(projected)

\* C10 witness: an ovs port with stale details and a name, asked for
\* binding:vif_type and device_id: only binding:vif_type was overwritten.
C10_Witness ==
    /\ pc = "returned"
    /\ request.op = "_make_port_dict"
    /\ request.port = SetItem(SetItem([name |-> "p1"], VIF_TYPE, "ovs"), VIF_DETAILS, "stale")
    /\ request.fields = List(<<VIF_TYPE, "device_id">>)
    /\ DOMAIN request.base_binding_dict = {VIF_TYPE, VIF_DETAILS}
    /\ outcome.value = SetItem(SetItem([name |-> "p1"], VIF_TYPE, "vrouter"),
                               VIF_DETAILS, "stale")

=============================================================================
